---- MODULE Spec2Model ----
(***************************************************************************)
(* Model of pkg/coverage/coverage.go: the block catalog (globalData, built *)
(* by InitCoverageData through once), the counter drain                    *)
(* (ConsumeCoverageData), the reset (ClearCoverageData) and the identifier *)
(* packing (calculatePC), with the instrumented code as concurrent writers *)
(* of coverdata.Cover.Counters.                                            *)
(*                                                                         *)
(* Go indices are kept 0-based in the variables; TLA+ sequences are        *)
(* 1-based, so element i of a Go slice s is s[i + 1] here.  A file name is *)
(* a sequence of byte values, compared as sort.Strings compares strings.   *)
(***************************************************************************)
EXTENDS Naturals, Integers, Sequences, FiniteSets, TLC

VARIABLES
    coverBlocks,    \* coverdata.Cover.Blocks: file name -> sequence of blocks
    coverCounters,  \* coverdata.Cover.Counters: file name -> sequence of uint32
    files,          \* globalData.files
    syntheticPCs,   \* globalData.syntheticPCs
    once,           \* sync.Once: "idle", "running" or "done"
    coverageMu,     \* holder of coverageMu, 0 when it is free
    pc,             \* position of each collecting goroutine
    fileIndex,      \* ConsumeCoverageData: fileIndex of the outer loop
    iter,           \* iteration number of the inner loop (0-based)
    total,          \* ConsumeCoverageData: total
    clrTodo,        \* ClearCoverageData: files the range has not reached yet
    clrFile,        \* ClearCoverageData: file of the current range iteration
    outcome,        \* how the call of each goroutine ended ("none" while running)
    ret,            \* value returned by ConsumeCoverageData
    sink,           \* history: the Write calls of the running ConsumeCoverageData
    cleared,        \* history: blocks whose counter the running call stored 0 into
    scanned,        \* history: blocks whose counter the running call loaded
    lastVal,        \* history: value overwritten by the last store of the call
    pending,        \* history: blocks hit since their counter's event last left the
                    \* counters (handed to a sink, or discarded by ClearCoverageData)
    fresh,          \* history: blocks hit since their counter was last stored to
    quiet,          \* history: no hit since a ClearCoverageData took the lock
    enumOrder,      \* history: order in which the last InitCoverageData ranged over
                    \* the map, kept until a collection takes the lock
    prevCatalog,    \* catalog built by the previous process run
    pcCur,          \* latest evaluation of calculatePC
    pcPrev,         \* evaluation of calculatePC before it
    builds,         \* history: completed runs of the body of InitCoverageData
    query           \* history: the latest call of FileFromIndex, BlockFromIndex,
                    \* KcovAvailable or PrintAllPCs, and what it gave

vars == <<coverBlocks, coverCounters, files, syntheticPCs, once, coverageMu,
          pc, fileIndex, iter, total, clrTodo, clrFile, outcome, ret,
          sink, cleared, scanned, lastVal, pending, fresh, quiet,
          enumOrder, prevCatalog, pcCur, pcPrev, builds, query>>

progVars == <<coverBlocks, coverCounters, files, syntheticPCs, once,
              coverageMu, pc, fileIndex, iter, total, clrTodo, clrFile,
              outcome, ret, sink, cleared, scanned, lastVal, pending, fresh,
              quiet, enumOrder, prevCatalog, builds, query>>

(***************************************************************************)
(* Bounds of the model and constants of the program.                       *)
(***************************************************************************)
MaxBlocks == 2
MaxCounters == 2
MaxHits == 2
NumProcs == 2
MaxFileNum == 2
MaxBuilds == 2
PCShift == 16
PCBytes == 8

Procs == 1..NumProcs

\* "a", "ab", "b" as byte sequences
FileNames == {<<97>>, <<97, 98>>, <<98>>}
DrainFileNames == {<<97>>, <<98>>}

NoFile == <<>>

RECURSIVE SumCounts(_, _)
SumCounts(c, S) ==
    IF S = {} THEN 0
    ELSE LET f == CHOOSE x \in S : TRUE IN c[f] + SumCounts(c, S \ {f})

\* Block counts per file the instrumentation may provide.
BuildSources == UNION {[S -> 0..MaxBlocks] : S \in SUBSET FileNames}
DrainSources ==
    {c \in UNION {[S -> 0..MaxCounters] : S \in SUBSET DrainFileNames} :
        SumCounts(c, DOMAIN c) <= MaxCounters}

\* Orders in which a range over a map with key set S may enumerate it.
Orders(S) ==
    {s \in [1..Cardinality(S) -> S] :
        \A i, j \in 1..Cardinality(S) : i # j => s[i] # s[j]}

(***************************************************************************)
(* Pure functions.                                                         *)
(***************************************************************************)
calculatePC(fileNum, blockNum) == fileNum * (2 ^ PCShift) + blockNum

RECURSIVE StrLess(_, _)
StrLess(s, t) ==
    IF t = <<>> THEN FALSE
    ELSE IF s = <<>> THEN TRUE
    ELSE IF Head(s) < Head(t) THEN TRUE
    ELSE IF Head(s) > Head(t) THEN FALSE
    ELSE StrLess(Tail(s), Tail(t))

RECURSIVE Insert(_, _)
Insert(x, s) ==
    IF s = <<>> THEN <<x>>
    ELSE IF StrLess(x, Head(s)) THEN <<x>> \o s
    ELSE <<Head(s)>> \o Insert(x, Tail(s))

RECURSIVE SortedInsert(_)
SortedInsert(s) ==
    IF s = <<>> THEN <<>> ELSE Insert(Head(s), SortedInsert(Tail(s)))

NoSort(s) == s

SortStrings(s) == SortedInsert(s)

IndexOrderDown(n) == [k \in 1..n |-> n - k]

\* for index := 0; index < len(counters); index++
IndexOrder(n) == [k \in 1..n |-> k - 1]

StoreDecrement(v) == v - 1

\* atomic.StoreUint32(&counters[index], 0)
StoreValue(v) == 0

OnlyOtherEndsFlush(err) == err = "other"

OnlyEofEndsFlush(err) == err = "EOF"

\* if err != nil
WriteEndsFlush(err) == err # "nil"

EofResultTotal(t, n) == t

\* return total + n
EofResult(t, n) == t + n

NeverZeroResult(t) == FALSE

\* if total == 0
ZeroResult(t) == t = 0

LockAlwaysAvailable(mu) == TRUE

\* coverageMu.Lock() returns once no goroutine holds the lock
LockAvailable(mu) == mu = 0

ClearFilesCatalog == {files[i] : i \in DOMAIN files}

\* for _, counters := range coverdata.Cover.Counters
ClearFiles == DOMAIN coverCounters

\* What w.Write(pcBuffer[:]) may return: all of the buffer and no error, or
\* an error with any part of the buffer accepted.
PartialWrites == {0, 4, PCBytes}
WriteOK == [n |-> PCBytes, err |-> "nil"]
WriteOutcomes ==
    {WriteOK} \cup {[n |-> k, err |-> "EOF"] : k \in PartialWrites}
              \cup {[n |-> k, err |-> "other"] : k \in PartialWrites \ {PCBytes}}

CounterLen(f) == IF f \in DOMAIN coverCounters THEN Len(coverCounters[f]) ELSE 0

\* The position the loops of ConsumeCoverageData reach from file fi,
\* iteration k: the first one at or after it that names a counter.
RECURSIVE ScanFrom(_, _)
ScanFrom(fi, k) ==
    IF fi >= Len(files) THEN [fileIndex |-> fi, iter |-> 0, end |-> TRUE]
    ELSE IF k < CounterLen(files[fi + 1])
         THEN [fileIndex |-> fi, iter |-> k, end |-> FALSE]
         ELSE ScanFrom(fi + 1, 0)

CurFile(p) == files[fileIndex[p] + 1]
CurIndex(p) == IndexOrder(CounterLen(CurFile(p)))[iter[p] + 1]
CurBlock(p) == <<CurFile(p), CurIndex(p)>>

NonEmpty(S) == {f \in S : CounterLen(f) > 0}

\* globalData.syntheticPCs[fileIndex][index] names an element
PCInRange(p) ==
    /\ fileIndex[p] < Len(syntheticPCs)
    /\ CurIndex(p) < Len(syntheticPCs[fileIndex[p] + 1])

\* A block of coverdata.Cover.Blocks[file] is named by its place in the
\* slice; a file the map does not hold has the nil slice.
BlocksOf(file) == IF file \in DOMAIN coverBlocks THEN coverBlocks[file] ELSE <<>>

\* No call of a query function yet.
NoQuery ==
    [op |-> "none", file |-> NoFile, i |-> 0, total |-> 0, builds |-> 0,
     result |-> "none", val |-> <<>>]

\* FileFromIndex: the error when i > total, the element when i indexes
\* globalData.files, and the run-time panic of the index expression
\* otherwise.
FileFromIndex(i) ==
    LET n == Len(files) IN
    IF i > n THEN [total |-> n, result |-> "error", val |-> <<>>]
    ELSE IF 0 <= i /\ i < n
         THEN [total |-> n, result |-> "value", val |-> files[i + 1]]
         ELSE [total |-> n, result |-> "panic", val |-> <<>>]

\* BlockFromIndex, the same way over coverdata.Cover.Blocks[file].
BlockFromIndex(file, i) ==
    LET n == Len(BlocksOf(file)) IN
    IF i > n THEN [total |-> n, result |-> "error", val |-> <<>>]
    ELSE IF 0 <= i /\ i < n
         THEN [total |-> n, result |-> "value", val |-> <<BlocksOf(file)[i + 1]>>]
         ELSE [total |-> n, result |-> "panic", val |-> <<>>]

KcovAvailableSomeBlock == \E f \in DOMAIN coverBlocks : Len(coverBlocks[f]) > 0

\* return len(coverdata.Cover.Blocks) > 0
KcovAvailable == Cardinality(DOMAIN coverBlocks) > 0

PrintLineSwapped(fileNum, blockNum) ==
    [pc |-> calculatePC(blockNum, fileNum), fileNum |-> fileNum,
     blockNum |-> blockNum, file |-> files[fileNum + 1],
     block |-> BlocksOf(files[fileNum + 1])[blockNum + 1]]

\* The two Printf of one iteration of PrintAllPCs: the identifier, and the
\* file with the position of the block.
PrintLine(fileNum, blockNum) ==
    [pc |-> calculatePC(fileNum, blockNum), fileNum |-> fileNum,
     blockNum |-> blockNum, file |-> files[fileNum + 1],
     block |-> BlocksOf(files[fileNum + 1])[blockNum + 1]]

\* for blockNum, block := range coverdata.Cover.Blocks[file]
PrintFile(fileNum) ==
    [k \in 1..Len(BlocksOf(files[fileNum + 1])) |->
        PrintLine(fileNum, IndexOrder(Len(BlocksOf(files[fileNum + 1])))[k])]

\* for fileNum, file := range globalData.files, from fileNum on
RECURSIVE PrintFrom(_)
PrintFrom(fileNum) ==
    IF fileNum >= Len(files) THEN <<>>
    ELSE PrintFile(fileNum) \o PrintFrom(fileNum + 1)

(***************************************************************************)
(* Initial states.                                                         *)
(***************************************************************************)
InitWith(sources) ==
    /\ \E c \in sources :
         /\ coverBlocks = [f \in DOMAIN c |-> [j \in 1..c[f] |-> j]]
         /\ coverCounters = [f \in DOMAIN c |-> [j \in 1..c[f] |-> 0]]
    /\ files = <<>>
    /\ syntheticPCs = <<>>
    /\ once = "idle"
    /\ coverageMu = 0
    /\ pc = [p \in Procs |-> "idle"]
    /\ fileIndex = [p \in Procs |-> 0]
    /\ iter = [p \in Procs |-> 0]
    /\ total = [p \in Procs |-> 0]
    /\ clrTodo = [p \in Procs |-> {}]
    /\ clrFile = [p \in Procs |-> NoFile]
    /\ outcome = [p \in Procs |-> "none"]
    /\ ret = [p \in Procs |-> 0]
    /\ sink = [p \in Procs |-> <<>>]
    /\ cleared = [p \in Procs |-> {}]
    /\ scanned = [p \in Procs |-> {}]
    /\ lastVal = [p \in Procs |-> 0]
    /\ pending = {}
    /\ fresh = {}
    /\ quiet = FALSE
    /\ enumOrder = <<>>
    /\ prevCatalog = [built |-> FALSE, files |-> <<>>, pcs |-> <<>>, order |-> <<>>]
    /\ pcCur = [fileNum |-> 0, blockNum |-> 0, pc |-> calculatePC(0, 0)]
    /\ pcPrev = [fileNum |-> 0, blockNum |-> 0, pc |-> calculatePC(0, 0)]
    /\ builds = 0
    /\ query = NoQuery

Init == InitWith(DrainSources)

(***************************************************************************)
(* Instrumented code: a hit increments the block's counter.                *)
(***************************************************************************)
Hit(f, j) ==
    /\ coverCounters[f][j + 1] < MaxHits
    /\ coverCounters' = [coverCounters EXCEPT ![f][j + 1] = @ + 1]
    /\ pending' = pending \cup {<<f, j>>}
    /\ fresh' = fresh \cup {<<f, j>>}
    /\ quiet' = FALSE
    /\ UNCHANGED <<coverBlocks, files, syntheticPCs, once, coverageMu, pc,
                   fileIndex, iter, total, clrTodo, clrFile, outcome, ret,
                   sink, cleared, scanned, lastVal, enumOrder, prevCatalog,
                   pcCur, pcPrev,
                   builds, query>>

(***************************************************************************)
(* once.Do(InitCoverageData)                                               *)
(***************************************************************************)
ConsumeStart(p) ==
    /\ pc[p] = "idle"
    /\ pc' = [pc EXCEPT ![p] = "once"]
    /\ UNCHANGED <<coverBlocks, coverCounters, files, syntheticPCs, once,
                   coverageMu, fileIndex, iter, total, clrTodo, clrFile,
                   outcome, ret, sink, cleared, scanned, lastVal, pending,
                   fresh, quiet, enumOrder, prevCatalog, pcCur, pcPrev,
                   builds, query>>

OnceDoNoWait(p) ==
    /\ pc[p] = "once"
    /\ IF once = "done"
       THEN /\ pc' = [pc EXCEPT ![p] = "lock"]
            /\ once' = once
       ELSE /\ pc' = [pc EXCEPT ![p] = "init_enum"]
            /\ once' = "running"
    /\ UNCHANGED <<coverBlocks, coverCounters, files, syntheticPCs,
                   coverageMu, fileIndex, iter, total, clrTodo, clrFile,
                   outcome, ret, sink, cleared, scanned, lastVal, pending,
                   fresh, quiet, enumOrder, prevCatalog, pcCur, pcPrev,
                   builds, query>>

\* once.Do runs the body in the first caller and returns in the others
\* once the body has returned.
OnceDo(p) ==
    /\ pc[p] = "once"
    /\ once # "running"
    /\ IF once = "done"
       THEN /\ pc' = [pc EXCEPT ![p] = "lock"]
            /\ once' = once
       ELSE /\ pc' = [pc EXCEPT ![p] = "init_enum"]
            /\ once' = "running"
    /\ UNCHANGED <<coverBlocks, coverCounters, files, syntheticPCs,
                   coverageMu, fileIndex, iter, total, clrTodo, clrFile,
                   outcome, ret, sink, cleared, scanned, lastVal, pending,
                   fresh, quiet, enumOrder, prevCatalog, pcCur, pcPrev,
                   builds, query>>

\* for file := range coverdata.Cover.Blocks { files = append(files, file) }
InitEnum(p) ==
    /\ pc[p] = "init_enum"
    /\ \E order \in Orders(DOMAIN coverBlocks) :
         /\ files' = files \o order
         /\ enumOrder' = order
    /\ pc' = [pc EXCEPT ![p] = "init_sort"]
    /\ UNCHANGED <<coverBlocks, coverCounters, syntheticPCs, once,
                   coverageMu, fileIndex, iter, total, clrTodo, clrFile,
                   outcome, ret, sink, cleared, scanned, lastVal, pending,
                   fresh, quiet, prevCatalog, pcCur, pcPrev,
                   builds, query>>

\* sort.Strings(globalData.files)
InitSort(p) ==
    /\ pc[p] = "init_sort"
    /\ files' = SortStrings(files)
    /\ pc' = [pc EXCEPT ![p] = "init_pcs"]
    /\ UNCHANGED <<coverBlocks, coverCounters, syntheticPCs, once,
                   coverageMu, fileIndex, iter, total, clrTodo, clrFile,
                   outcome, ret, sink, cleared, scanned, lastVal, pending,
                   fresh, quiet, enumOrder, prevCatalog, pcCur, pcPrev,
                   builds, query>>

\* the second loop of InitCoverageData, and the return of once.Do
InitPCs(p) ==
    /\ pc[p] = "init_pcs"
    /\ syntheticPCs' = syntheticPCs \o
           [i \in 1..Len(files) |->
               [j \in 1..Len(coverBlocks[files[i]]) |-> calculatePC(i - 1, j - 1)]]
    /\ once' = "done"
    /\ builds' = builds + 1
    /\ pc' = [pc EXCEPT ![p] = "lock"]
    /\ UNCHANGED <<coverBlocks, coverCounters, files, coverageMu, fileIndex,
                   iter, total, clrTodo, clrFile, outcome, ret, sink, cleared,
                   scanned, lastVal, pending, fresh, quiet, enumOrder,
                   prevCatalog, pcCur, pcPrev, query>>

(***************************************************************************)
(* ConsumeCoverageData                                                     *)
(***************************************************************************)
GoTo(p, pos) ==
    /\ fileIndex' = [fileIndex EXCEPT ![p] = pos.fileIndex]
    /\ iter' = [iter EXCEPT ![p] = pos.iter]
    /\ pc' = [pc EXCEPT ![p] = IF pos.end THEN "check" ELSE "load"]

ConsumeLock(p) ==
    /\ pc[p] = "lock"
    /\ LockAvailable(coverageMu)
    /\ coverageMu' = p
    /\ total' = [total EXCEPT ![p] = 0]
    /\ enumOrder' = <<>>
    /\ GoTo(p, ScanFrom(0, 0))
    /\ UNCHANGED <<coverBlocks, coverCounters, files, syntheticPCs, once,
                   clrTodo, clrFile, outcome, ret, sink, cleared, scanned,
                   lastVal, pending, fresh, quiet, prevCatalog, pcCur, pcPrev,
                   builds, query>>

\* if atomic.LoadUint32(&counters[index]) == 0 { continue }
FlushLoad(p) ==
    /\ pc[p] = "load"
    /\ scanned' = [scanned EXCEPT ![p] = @ \cup {CurBlock(p)}]
    /\ IF coverCounters[CurFile(p)][CurIndex(p) + 1] = 0
       THEN GoTo(p, ScanFrom(fileIndex[p], iter[p] + 1))
       ELSE /\ pc' = [pc EXCEPT ![p] = "store"]
            /\ UNCHANGED <<fileIndex, iter>>
    /\ UNCHANGED <<coverBlocks, coverCounters, files, syntheticPCs, once,
                   coverageMu, total, clrTodo, clrFile, outcome, ret, sink,
                   cleared, lastVal, pending, fresh, quiet, enumOrder,
                   prevCatalog, pcCur, pcPrev,
                   builds, query>>

FlushStoreFile(p) ==
    /\ pc[p] = "store"
    /\ coverCounters' = [coverCounters EXCEPT
           ![CurFile(p)] = [j \in DOMAIN @ |-> 0]]
    /\ cleared' = [cleared EXCEPT ![p] = @ \cup {CurBlock(p)}]
    /\ lastVal' = [lastVal EXCEPT ![p] = coverCounters[CurFile(p)][CurIndex(p) + 1]]
    /\ fresh' = fresh \ {CurBlock(p)}
    /\ pc' = [pc EXCEPT ![p] = "write"]
    /\ UNCHANGED <<coverBlocks, files, syntheticPCs, once, coverageMu,
                   fileIndex, iter, total, clrTodo, clrFile, outcome, ret,
                   sink, scanned, pending, quiet, enumOrder, prevCatalog,
                   pcCur, pcPrev,
                   builds, query>>

\* atomic.StoreUint32(&counters[index], 0)
FlushStore(p) ==
    /\ pc[p] = "store"
    /\ coverCounters' = [coverCounters EXCEPT
           ![CurFile(p)][CurIndex(p) + 1] = StoreValue(@)]
    /\ cleared' = [cleared EXCEPT ![p] = @ \cup {CurBlock(p)}]
    /\ lastVal' = [lastVal EXCEPT ![p] = coverCounters[CurFile(p)][CurIndex(p) + 1]]
    /\ fresh' = fresh \ {CurBlock(p)}
    /\ pc' = [pc EXCEPT ![p] = "write"]
    /\ UNCHANGED <<coverBlocks, files, syntheticPCs, once, coverageMu,
                   fileIndex, iter, total, clrTodo, clrFile, outcome, ret,
                   sink, scanned, pending, quiet, enumOrder, prevCatalog,
                   pcCur, pcPrev,
                   builds, query>>

\* pc := globalData.syntheticPCs[fileIndex][index]; n, err := w.Write(...)
\* and what follows the write, for one result (n, err) of the sink.
FlushWrite(p, out) ==
    /\ pc[p] = "write"
    /\ PCInRange(p)
    /\ sink' = [sink EXCEPT ![p] = Append(@,
           [fileIndex |-> fileIndex[p], index |-> CurIndex(p),
            file |-> CurFile(p),
            pc |-> syntheticPCs[fileIndex[p] + 1][CurIndex(p) + 1],
            n |-> out.n, err |-> out.err])]
    /\ pending' = pending \ {CurBlock(p)}
    /\ IF WriteEndsFlush(out.err)
       THEN /\ IF out.err = "EOF"
               THEN /\ outcome' = [outcome EXCEPT ![p] = "eof"]
                    /\ ret' = [ret EXCEPT ![p] = EofResult(total[p], out.n)]
               ELSE /\ outcome' = [outcome EXCEPT ![p] = "panic_write"]
                    /\ ret' = ret
            /\ pc' = [pc EXCEPT ![p] = "unlock"]
            /\ UNCHANGED <<total, fileIndex, iter>>
       ELSE /\ total' = [total EXCEPT ![p] = @ + out.n]
            /\ GoTo(p, ScanFrom(fileIndex[p], iter[p] + 1))
            /\ UNCHANGED <<outcome, ret>>
    /\ UNCHANGED <<coverBlocks, coverCounters, files, syntheticPCs, once,
                   coverageMu, clrTodo, clrFile, cleared, scanned, lastVal,
                   fresh, quiet, enumOrder, prevCatalog, pcCur, pcPrev,
                   builds, query>>

\* if total == 0 { panic(...) }; return total
FlushCheck(p) ==
    /\ pc[p] = "check"
    /\ IF ZeroResult(total[p])
       THEN /\ outcome' = [outcome EXCEPT ![p] = "panic_nodata"]
            /\ ret' = ret
       ELSE /\ outcome' = [outcome EXCEPT ![p] = "total"]
            /\ ret' = [ret EXCEPT ![p] = total[p]]
    /\ pc' = [pc EXCEPT ![p] = "unlock"]
    /\ UNCHANGED <<coverBlocks, coverCounters, files, syntheticPCs, once,
                   coverageMu, fileIndex, iter, total, clrTodo, clrFile,
                   sink, cleared, scanned, lastVal, pending, fresh, quiet,
                   enumOrder, prevCatalog, pcCur, pcPrev, builds, query>>

UnlockUnlessPanic(p) ==
    /\ pc[p] \in {"unlock", "clr_unlock"}
    /\ coverageMu' = IF outcome[p] \in {"panic_write", "panic_nodata", "panic_index"}
                     THEN coverageMu ELSE 0
    /\ pc' = [pc EXCEPT ![p] = "idle"]
    /\ fileIndex' = [fileIndex EXCEPT ![p] = 0]
    /\ iter' = [iter EXCEPT ![p] = 0]
    /\ total' = [total EXCEPT ![p] = 0]
    /\ clrTodo' = [clrTodo EXCEPT ![p] = {}]
    /\ clrFile' = [clrFile EXCEPT ![p] = NoFile]
    /\ outcome' = [outcome EXCEPT ![p] = "none"]
    /\ ret' = [ret EXCEPT ![p] = 0]
    /\ sink' = [sink EXCEPT ![p] = <<>>]
    /\ cleared' = [cleared EXCEPT ![p] = {}]
    /\ scanned' = [scanned EXCEPT ![p] = {}]
    /\ lastVal' = [lastVal EXCEPT ![p] = 0]
    /\ UNCHANGED <<coverBlocks, coverCounters, files, syntheticPCs, once,
                   pending, fresh, quiet, enumOrder, prevCatalog, pcCur,
                   pcPrev, builds, query>>

\* defer coverageMu.Unlock(), and the end of the call
Unlock(p) ==
    /\ pc[p] \in {"unlock", "clr_unlock"}
    /\ coverageMu' = 0
    /\ pc' = [pc EXCEPT ![p] = "idle"]
    /\ fileIndex' = [fileIndex EXCEPT ![p] = 0]
    /\ iter' = [iter EXCEPT ![p] = 0]
    /\ total' = [total EXCEPT ![p] = 0]
    /\ clrTodo' = [clrTodo EXCEPT ![p] = {}]
    /\ clrFile' = [clrFile EXCEPT ![p] = NoFile]
    /\ outcome' = [outcome EXCEPT ![p] = "none"]
    /\ ret' = [ret EXCEPT ![p] = 0]
    /\ sink' = [sink EXCEPT ![p] = <<>>]
    /\ cleared' = [cleared EXCEPT ![p] = {}]
    /\ scanned' = [scanned EXCEPT ![p] = {}]
    /\ lastVal' = [lastVal EXCEPT ![p] = 0]
    /\ UNCHANGED <<coverBlocks, coverCounters, files, syntheticPCs, once,
                   pending, fresh, quiet, enumOrder, prevCatalog, pcCur,
                   pcPrev,
                   builds, query>>

(***************************************************************************)
(* ClearCoverageData                                                       *)
(***************************************************************************)
ClearStart(p) ==
    /\ pc[p] = "idle"
    /\ pc' = [pc EXCEPT ![p] = "clr_lock"]
    /\ UNCHANGED <<coverBlocks, coverCounters, files, syntheticPCs, once,
                   coverageMu, fileIndex, iter, total, clrTodo, clrFile,
                   outcome, ret, sink, cleared, scanned, lastVal, pending,
                   fresh, quiet, enumOrder, prevCatalog, pcCur, pcPrev,
                   builds, query>>

\* The range moves to any file it has not reached yet; a file without
\* counters has no iteration of the inner loop.
ClearGoTo(p, todo) ==
    IF NonEmpty(todo) = {}
    THEN /\ pc' = [pc EXCEPT ![p] = "clr_unlock"]
         /\ clrTodo' = [clrTodo EXCEPT ![p] = {}]
         /\ clrFile' = [clrFile EXCEPT ![p] = NoFile]
         /\ iter' = [iter EXCEPT ![p] = 0]
    ELSE \E f \in NonEmpty(todo) :
         /\ pc' = [pc EXCEPT ![p] = "clr_store"]
         /\ clrTodo' = [clrTodo EXCEPT ![p] = todo \ {f}]
         /\ clrFile' = [clrFile EXCEPT ![p] = f]
         /\ iter' = [iter EXCEPT ![p] = 0]

ClearLockOnce(p) ==
    /\ pc[p] = "clr_lock"
    /\ LockAvailable(coverageMu)
    /\ coverageMu' = p
    /\ quiet' = TRUE
    /\ enumOrder' = IF once = "done" THEN <<>> ELSE enumOrder
    /\ ClearGoTo(p, ClearFiles)
    /\ IF once = "idle"
       THEN /\ \E order \in Orders(DOMAIN coverBlocks) :
                 files' = SortStrings(files \o order)
            /\ syntheticPCs' = syntheticPCs \o
                   [i \in 1..Len(files') |->
                       [j \in 1..Len(coverBlocks[files'[i]]) |->
                           calculatePC(i - 1, j - 1)]]
            /\ once' = "done"
            /\ builds' = builds + 1
       ELSE UNCHANGED <<files, syntheticPCs, once, builds>>
    /\ UNCHANGED <<coverBlocks, coverCounters,
                   fileIndex, total, outcome, ret, sink, cleared, scanned,
                   lastVal, pending, fresh, prevCatalog, pcCur, pcPrev, query>>

\* coverageMu.Lock() of ClearCoverageData, and the start of its range over
\* coverdata.Cover.Counters
ClearLock(p) ==
    /\ pc[p] = "clr_lock"
    /\ LockAvailable(coverageMu)
    /\ coverageMu' = p
    /\ quiet' = TRUE
    /\ enumOrder' = IF once = "done" THEN <<>> ELSE enumOrder
    /\ ClearGoTo(p, ClearFiles)
    /\ UNCHANGED <<coverBlocks, coverCounters, files, syntheticPCs, once,
                   fileIndex, total, outcome, ret, sink, cleared, scanned,
                   lastVal, pending, fresh, prevCatalog, pcCur, pcPrev,
                   builds, query>>

\* atomic.StoreUint32(&counters[index], 0) of ClearCoverageData
ClearStore(p) ==
    /\ pc[p] = "clr_store"
    /\ coverCounters' = [coverCounters EXCEPT ![clrFile[p]][iter[p] + 1] = 0]
    /\ cleared' = [cleared EXCEPT ![p] = @ \cup {<<clrFile[p], iter[p]>>}]
    /\ lastVal' = [lastVal EXCEPT ![p] = coverCounters[clrFile[p]][iter[p] + 1]]
    /\ fresh' = fresh \ {<<clrFile[p], iter[p]>>}
    /\ pending' = pending \ {<<clrFile[p], iter[p]>>}
    /\ IF iter[p] + 1 < CounterLen(clrFile[p])
       THEN /\ iter' = [iter EXCEPT ![p] = @ + 1]
            /\ UNCHANGED <<pc, clrTodo, clrFile>>
       ELSE ClearGoTo(p, clrTodo[p])
    /\ UNCHANGED <<coverBlocks, files, syntheticPCs, once, coverageMu,
                   fileIndex, total, outcome, ret, sink, scanned, quiet,
                   enumOrder, prevCatalog, pcCur, pcPrev, builds, query>>

\* The index expression of line 165 panics: syntheticPCs[fileIndex] is
\* shorter than the counters of the file.  The deferred Unlock follows.
FlushIndexPanic(p) ==
    /\ pc[p] = "write"
    /\ ~PCInRange(p)
    /\ outcome' = [outcome EXCEPT ![p] = "panic_index"]
    /\ pc' = [pc EXCEPT ![p] = "unlock"]
    /\ UNCHANGED <<coverBlocks, coverCounters, files, syntheticPCs, once,
                   coverageMu, fileIndex, iter, total, clrTodo, clrFile, ret,
                   sink, cleared, scanned, lastVal, pending, fresh, quiet,
                   enumOrder, prevCatalog, pcCur, pcPrev, builds, query>>

(***************************************************************************)
(* InitCoverageData called by name by a goroutine that is in no other      *)
(* call, and the query functions, called by any other goroutine while no   *)
(* goroutine is writing globalData.                                        *)
(***************************************************************************)
InitCoverageData(p) ==
    /\ pc[p] = "idle"
    /\ builds < MaxBuilds
    /\ \E order \in Orders(DOMAIN coverBlocks) :
         LET fs == SortStrings(files \o order) IN
         /\ files' = fs
         /\ syntheticPCs' = syntheticPCs \o
                [i \in 1..Len(fs) |->
                    [j \in 1..Len(coverBlocks[fs[i]]) |-> calculatePC(i - 1, j - 1)]]
         /\ enumOrder' = order
    /\ builds' = builds + 1
    /\ UNCHANGED <<coverBlocks, coverCounters, once, coverageMu, pc,
                   fileIndex, iter, total, clrTodo, clrFile, outcome, ret,
                   sink, cleared, scanned, lastVal, pending, fresh, quiet,
                   prevCatalog, pcCur, pcPrev, query>>

\* What a query function leaves as it is: everything of the program.
queryFrame ==
    <<coverBlocks, coverCounters, files, syntheticPCs, once, coverageMu, pc,
      fileIndex, iter, total, clrTodo, clrFile, outcome, ret, sink, cleared,
      scanned, lastVal, pending, fresh, quiet, enumOrder, prevCatalog,
      pcCur, pcPrev, builds>>

LookupIndexes == (-1)..(MaxBlocks + 1)

InitPCsOf == {"init_enum", "init_sort", "init_pcs"}

NoBuildRunning == \A p \in Procs : pc[p] \notin InitPCsOf

CallFileFromIndex(i) ==
    /\ NoBuildRunning
    /\ query' = [op |-> "FileFromIndex", file |-> NoFile, i |-> i,
                 total |-> FileFromIndex(i).total, builds |-> builds,
                 result |-> FileFromIndex(i).result,
                 val |-> FileFromIndex(i).val]
    /\ UNCHANGED queryFrame

CallBlockFromIndex(file, i) ==
    /\ NoBuildRunning
    /\ query' = [op |-> "BlockFromIndex", file |-> file, i |-> i,
                 total |-> BlockFromIndex(file, i).total, builds |-> builds,
                 result |-> BlockFromIndex(file, i).result,
                 val |-> BlockFromIndex(file, i).val]
    /\ UNCHANGED queryFrame

CallKcovAvailable ==
    /\ NoBuildRunning
    /\ query' = [op |-> "KcovAvailable", file |-> NoFile, i |-> 0,
                 total |-> Cardinality(DOMAIN coverBlocks), builds |-> builds,
                 result |-> IF KcovAvailable THEN "true" ELSE "false",
                 val |-> <<>>]
    /\ UNCHANGED queryFrame

CallPrintAllPCs ==
    /\ NoBuildRunning
    /\ query' = [op |-> "PrintAllPCs", file |-> NoFile, i |-> 0,
                 total |-> Len(files), builds |-> builds,
                 result |-> "printed", val |-> PrintFrom(0)]
    /\ UNCHANGED queryFrame

(***************************************************************************)
(* The collecting goroutines and the instrumented code.                    *)
(***************************************************************************)
HitAny == \E f \in DOMAIN coverCounters : \E j \in 0..(CounterLen(f) - 1) : Hit(f, j)

\* A new run of the process, over the same instrumented build: globalData
\* and once are zero values again.  The catalog of the finished run is kept
\* for comparison.
Restart ==
    /\ once = "done"
    /\ \A p \in Procs : pc[p] \in {"idle", "lock"}
    /\ prevCatalog' = [built |-> TRUE, files |-> files, pcs |-> syntheticPCs,
                       order |-> enumOrder]
    /\ files' = <<>>
    /\ syntheticPCs' = <<>>
    /\ once' = "idle"
    /\ enumOrder' = <<>>
    /\ pc' = [p \in Procs |-> "idle"]
    /\ builds' = 0
    /\ UNCHANGED <<coverBlocks, coverCounters, coverageMu, fileIndex, iter,
                   total, clrTodo, clrFile, outcome, ret, sink, cleared,
                   scanned, lastVal, pending, fresh, quiet, pcCur, pcPrev,
                   query>>

\* One evaluation of calculatePC, after the one before it.
CalcPC(f, b) ==
    /\ pcPrev' = pcCur
    /\ pcCur' = [fileNum |-> f, blockNum |-> b, pc |-> calculatePC(f, b)]
    /\ UNCHANGED progVars

(***************************************************************************)
(* Spec: two goroutines that call ConsumeCoverageData and                  *)
(* ClearCoverageData, any sink, and the instrumented code.                 *)
(***************************************************************************)
DrainProcs == {1, 2}

Next ==
    \/ HitAny
    \/ \E p \in DrainProcs : ConsumeStart(p)
    \/ \E p \in DrainProcs : OnceDo(p)
    \/ \E p \in DrainProcs : InitEnum(p)
    \/ \E p \in DrainProcs : InitSort(p)
    \/ \E p \in DrainProcs : InitPCs(p)
    \/ \E p \in DrainProcs : ConsumeLock(p)
    \/ \E p \in DrainProcs : FlushLoad(p)
    \/ \E p \in DrainProcs : FlushStore(p)
    \/ \E p \in DrainProcs : \E out \in WriteOutcomes : FlushWrite(p, out)
    \/ \E p \in DrainProcs : FlushCheck(p)
    \/ \E p \in DrainProcs : Unlock(p)
    \/ \E p \in DrainProcs : ClearStart(p)
    \/ \E p \in DrainProcs : ClearLock(p)
    \/ \E p \in DrainProcs : ClearStore(p)

Spec == Init /\ [][Next]_vars

(***************************************************************************)
(* SpecDrain: the same goroutines calling ConsumeCoverageData only, with a *)
(* sink that accepts every write.                                          *)
(***************************************************************************)
NextDrain ==
    \/ HitAny
    \/ \E p \in DrainProcs : ConsumeStart(p)
    \/ \E p \in DrainProcs : OnceDo(p)
    \/ \E p \in DrainProcs : InitEnum(p)
    \/ \E p \in DrainProcs : InitSort(p)
    \/ \E p \in DrainProcs : InitPCs(p)
    \/ \E p \in DrainProcs : ConsumeLock(p)
    \/ \E p \in DrainProcs : FlushLoad(p)
    \/ \E p \in DrainProcs : FlushStore(p)
    \/ \E p \in DrainProcs : FlushWrite(p, WriteOK)
    \/ \E p \in DrainProcs : FlushCheck(p)
    \/ \E p \in DrainProcs : Unlock(p)

SpecDrain == Init /\ [][NextDrain]_vars

(***************************************************************************)
(* SpecLock: NumProcs goroutines contending for once and coverageMu, over  *)
(* data sources of at most one counter.                                    *)
(***************************************************************************)
LockSources == {c \in DrainSources : SumCounts(c, DOMAIN c) <= 1}

InitLock == InitWith(LockSources)

NextLock ==
    \/ HitAny
    \/ \E p \in Procs : ConsumeStart(p)
    \/ \E p \in Procs : OnceDo(p)
    \/ \E p \in Procs : InitEnum(p)
    \/ \E p \in Procs : InitSort(p)
    \/ \E p \in Procs : InitPCs(p)
    \/ \E p \in Procs : ConsumeLock(p)
    \/ \E p \in Procs : FlushLoad(p)
    \/ \E p \in Procs : FlushStore(p)
    \/ \E p \in Procs : \E out \in WriteOutcomes : FlushWrite(p, out)
    \/ \E p \in Procs : FlushCheck(p)
    \/ \E p \in Procs : Unlock(p)
    \/ \E p \in Procs : ClearStart(p)
    \/ \E p \in Procs : ClearLock(p)
    \/ \E p \in Procs : ClearStore(p)

SpecLock == InitLock /\ [][NextLock]_vars

(***************************************************************************)
(* SpecFair: two goroutines contending for once and coverageMu as in       *)
(* SpecLock, under the scheduling the Go runtime gives: a goroutine that   *)
(* can run does run, a Write of the sink returns, and a goroutine blocked  *)
(* in coverageMu.Lock() is not passed over for ever (a sync.Mutex hands    *)
(* the lock to a waiter that has waited long).  A goroutine need not start *)
(* a call, and the instrumented code need not run.                         *)
(***************************************************************************)
NextFair ==
    \/ HitAny
    \/ \E p \in DrainProcs : ConsumeStart(p)
    \/ \E p \in DrainProcs : OnceDo(p)
    \/ \E p \in DrainProcs : InitEnum(p)
    \/ \E p \in DrainProcs : InitSort(p)
    \/ \E p \in DrainProcs : InitPCs(p)
    \/ \E p \in DrainProcs : ConsumeLock(p)
    \/ \E p \in DrainProcs : FlushLoad(p)
    \/ \E p \in DrainProcs : FlushStore(p)
    \/ \E p \in DrainProcs : \E out \in WriteOutcomes : FlushWrite(p, out)
    \/ \E p \in DrainProcs : FlushCheck(p)
    \/ \E p \in DrainProcs : Unlock(p)
    \/ \E p \in DrainProcs : ClearStart(p)
    \/ \E p \in DrainProcs : ClearLock(p)
    \/ \E p \in DrainProcs : ClearStore(p)

GoStep(p) ==
    \/ OnceDo(p)
    \/ InitEnum(p)
    \/ InitSort(p)
    \/ InitPCs(p)
    \/ FlushLoad(p)
    \/ FlushStore(p)
    \/ \E out \in WriteOutcomes : FlushWrite(p, out)
    \/ FlushCheck(p)
    \/ ClearStore(p)
    \/ Unlock(p)

Fairness ==
    \A p \in DrainProcs :
        /\ WF_vars(GoStep(p))
        /\ SF_vars(ConsumeLock(p))
        /\ SF_vars(ClearLock(p))

SpecFair == InitLock /\ [][NextFair]_vars /\ Fairness

(***************************************************************************)
(* SpecBuild: process runs that build the catalog, over every data source  *)
(* of the bounds.                                                          *)
(***************************************************************************)
InitBuild == InitWith(BuildSources)

NextBuild ==
    \/ \E p \in Procs : ConsumeStart(p)
    \/ \E p \in Procs : OnceDo(p)
    \/ \E p \in Procs : InitEnum(p)
    \/ \E p \in Procs : InitSort(p)
    \/ \E p \in Procs : InitPCs(p)
    \/ Restart

SpecBuild == InitBuild /\ [][NextBuild]_vars

(***************************************************************************)
(* SpecPC: calculatePC applied to file and block ordinals, among them the  *)
(* block ordinals on both sides of 2^PCShift.                              *)
(***************************************************************************)
FileNums == 0..MaxFileNum
BlockNums == {0, 1, 2 ^ PCShift - 1, 2 ^ PCShift}

InitPC == InitWith({[f \in {} |-> 0]})

NextPC == \E f \in FileNums : \E b \in BlockNums : CalcPC(f, b)

SpecPC == InitPC /\ [][NextPC]_vars

(***************************************************************************)
(* SpecClear: goroutines that call ClearCoverageData only, and the         *)
(* instrumented code.                                                      *)
(***************************************************************************)
NextClear ==
    \/ HitAny
    \/ \E p \in DrainProcs : ClearStart(p)
    \/ \E p \in DrainProcs : ClearLock(p)
    \/ \E p \in DrainProcs : ClearStore(p)
    \/ \E p \in DrainProcs : Unlock(p)

SpecClear == Init /\ [][NextClear]_vars

(***************************************************************************)
(* SpecCalls: one goroutine making any sequence of calls of the package:   *)
(* InitCoverageData by name, ConsumeCoverageData with any sink,            *)
(* ClearCoverageData and the query functions, with the instrumented code.  *)
(***************************************************************************)
CallProcs == {1}

NextCalls ==
    \/ HitAny
    \/ \E p \in CallProcs : InitCoverageData(p)
    \/ \E p \in CallProcs : ConsumeStart(p)
    \/ \E p \in CallProcs : OnceDo(p)
    \/ \E p \in CallProcs : InitEnum(p)
    \/ \E p \in CallProcs : InitSort(p)
    \/ \E p \in CallProcs : InitPCs(p)
    \/ \E p \in CallProcs : ConsumeLock(p)
    \/ \E p \in CallProcs : FlushLoad(p)
    \/ \E p \in CallProcs : FlushStore(p)
    \/ \E p \in CallProcs : \E out \in WriteOutcomes : FlushWrite(p, out)
    \/ \E p \in CallProcs : FlushIndexPanic(p)
    \/ \E p \in CallProcs : FlushCheck(p)
    \/ \E p \in CallProcs : Unlock(p)
    \/ \E p \in CallProcs : ClearStart(p)
    \/ \E p \in CallProcs : ClearLock(p)
    \/ \E p \in CallProcs : ClearStore(p)
    \/ \E i \in LookupIndexes : CallFileFromIndex(i)
    \/ \E f \in FileNames : \E i \in LookupIndexes : CallBlockFromIndex(f, i)
    \/ CallKcovAvailable
    \/ CallPrintAllPCs

SpecCalls == InitLock /\ [][NextCalls]_vars

(***************************************************************************)
(* SpecQuery: the query functions, before and after the catalog is built   *)
(* through once, over every data source of the bounds.                     *)
(***************************************************************************)
NextQuery ==
    \/ \E p \in CallProcs : ConsumeStart(p)
    \/ \E p \in CallProcs : OnceDo(p)
    \/ \E p \in CallProcs : InitEnum(p)
    \/ \E p \in CallProcs : InitSort(p)
    \/ \E p \in CallProcs : InitPCs(p)
    \/ \E i \in LookupIndexes : CallFileFromIndex(i)
    \/ \E f \in FileNames : \E i \in LookupIndexes : CallBlockFromIndex(f, i)
    \/ CallKcovAvailable
    \/ CallPrintAllPCs

SpecQuery == InitBuild /\ [][NextQuery]_vars

(***************************************************************************)
(* Properties.                                                             *)
(***************************************************************************)
Counter(b) == coverCounters[b[1]][b[2] + 1]

AllBlocks ==
    UNION {{<<f, j>> : j \in 0..(CounterLen(f) - 1)} : f \in DOMAIN coverCounters}

CatalogBlocks == {b \in AllBlocks : \E i \in DOMAIN files : files[i] = b[1]}

SinkBlocks(p) == {<<sink[p][i].file, sink[p][i].index>> : i \in DOMAIN sink[p]}

FullBlocks(p) ==
    {<<sink[p][i].file, sink[p][i].index>> :
        i \in {k \in DOMAIN sink[p] : sink[p][k].n = PCBytes}}

RECURSIVE SumBytes(_)
SumBytes(s) == IF s = <<>> THEN 0 ELSE Head(s).n + SumBytes(Tail(s))

LastWrite(p) == sink[p][Len(sink[p])]

\* (f1, b1) comes before (f2, b2) in catalog order
LexLess(f1, b1, f2, b2) == f1 < f2 \/ (f1 = f2 /\ b1 < b2)

FilePos(f) == (CHOOSE i \in DOMAIN files : files[i] = f) - 1

\* block b comes later in catalog order than the block of sink entry e
LaterThan(b, e) == LexLess(e.fileIndex, e.index, FilePos(b[1]), b[2])

ScanPCs == {"load", "store", "write", "check", "unlock", "clr_store", "clr_unlock"}
FlushPCs == {"load", "store", "write", "check", "unlock"}

\* C1 as stated: when a ConsumeCoverageData call ends, whatever way, the
\* counters it stored zero into are exactly the blocks whose 8-byte
\* identifier the sink accepted in full.
C1_ClearedEqualsFullyWritten ==
    \A p \in Procs : pc[p] = "unlock" => cleared[p] = FullBlocks(p)

\* C1 amended: when a ConsumeCoverageData call ends, whatever way, the
\* counters it stored zero into are exactly the blocks whose identifier it
\* passed to a Write of the sink; every Write but the last returned no error
\* and accepted all 8 bytes, and the last accepted fewer than 8 bytes only
\* together with an error (end-of-stream or failure) that ended the call.
C1_ClearedEqualsWriteCalls ==
    \A p \in Procs : pc[p] = "unlock" =>
        /\ cleared[p] = SinkBlocks(p)
        /\ Cardinality(SinkBlocks(p)) = Len(sink[p])
        /\ \A i \in DOMAIN sink[p] :
              \/ sink[p][i].n = PCBytes /\ sink[p][i].err = "nil"
              \/ i = Len(sink[p]) /\ sink[p][i].err # "nil"
                    /\ outcome[p] \in {"eof", "panic_write"}

\* C1 witness: a call ended by end-of-stream on its second Write, which
\* accepted less than the identifier: that counter is cleared all the same.
C1_Witness ==
    \E p \in Procs :
        /\ pc[p] = "unlock"
        /\ Len(sink[p]) = 2
        /\ LastWrite(p).err = "EOF"
        /\ LastWrite(p).n < PCBytes
        /\ <<LastWrite(p).file, LastWrite(p).index>> \in cleared[p]

\* C2: at most one goroutine is between taking and releasing coverageMu,
\* in the scan of ConsumeCoverageData or of ClearCoverageData.
C2_MutualExclusion ==
    Cardinality({p \in Procs : pc[p] \in ScanPCs}) <= 1

\* C2 witness: a ConsumeCoverageData is between its load and its store
\* while a ClearCoverageData waits for the lock.
C2_Witness ==
    \E p, q \in Procs :
        /\ p # q
        /\ pc[p] = "store"
        /\ pc[q] = "clr_lock"

\* C3: with a sink that accepts every write and no ClearCoverageData, when
\* a ConsumeCoverageData call finishes, every block hit since its
\* identifier was last written has a nonzero counter.
C3_NoHitLost ==
    \A p \in Procs : pc[p] = "unlock" =>
        \A b \in pending : Counter(b) > 0

\* C3 witness: a hit landed between the store and the write of a block;
\* the call wrote the identifier after it and the counter is nonzero at the
\* end of the call.
C3_Witness ==
    \E p \in Procs :
        /\ pc[p] = "unlock"
        /\ \E b \in SinkBlocks(p) : b \notin pending /\ Counter(b) > 0
        /\ \E b \in scanned[p] \ cleared[p] : b \in pending

\* C4: the Write calls of one ConsumeCoverageData call are in catalog
\* order: file ordinal ascending, then block ordinal ascending.
C4_CatalogOrder ==
    \A p \in Procs : \A i, j \in DOMAIN sink[p] :
        i < j => LexLess(sink[p][i].fileIndex, sink[p][i].index,
                         sink[p][j].fileIndex, sink[p][j].index)

\* C4 witness: one call has written the identifiers of blocks of two
\* files, and the first of them was hit again after its write.
C4_Witness ==
    \E p \in Procs :
        /\ Len(sink[p]) = 2
        /\ sink[p][1].fileIndex < sink[p][2].fileIndex
        /\ <<sink[p][1].file, sink[p][1].index>> \in pending

\* C5: one ConsumeCoverageData call never writes the identifier of a block
\* twice, and it consumes a counter only if the block was hit since the
\* counter was last stored to: k hits give one identifier, and no hit gives
\* none.
C5_HitsCollapse ==
    \A p \in Procs :
        /\ \A i, j \in DOMAIN sink[p] :
              i # j => /\ sink[p][i].pc # sink[p][j].pc
                       /\ <<sink[p][i].file, sink[p][i].index>> #
                          <<sink[p][j].file, sink[p][j].index>>
        /\ pc[p] = "store" => CurBlock(p) \in fresh

\* C5 witness: a call that scanned every counter consumed a counter holding
\* two hits or more and wrote the block's identifier once.
C5_Witness ==
    \E p \in Procs :
        /\ pc[p] = "unlock"
        /\ outcome[p] = "total"
        /\ lastVal[p] >= 2
        /\ Len(sink[p]) = 1
        /\ ret[p] = PCBytes

\* C6: a ConsumeCoverageData call that loaded every counter of the catalog
\* and found them all zero (or found no counter) ends in the panic, and a
\* call that returns total after its scan returns more than zero.
C6_ZeroResultPanics ==
    \A p \in Procs : pc[p] = "unlock" =>
        /\ (scanned[p] = CatalogBlocks /\ cleared[p] = {})
               => outcome[p] = "panic_nodata"
        /\ outcome[p] = "total" => (ret[p] > 0 /\ ret[p] = SumBytes(sink[p]))

\* C6 witness: a call over a catalog with counters, all zero, ended in the
\* panic.
C6_Witness ==
    \E p \in Procs :
        /\ pc[p] = "unlock"
        /\ outcome[p] = "panic_nodata"
        /\ scanned[p] # {}
        /\ scanned[p] = CatalogBlocks

\* C7: a call whose Write returned io.EOF ends at once and returns the
\* bytes the sink accepted, those of the last Write included; it has loaded
\* and stored no counter later in catalog order than the one it was writing.
C7_EofShortCircuit ==
    \A p \in Procs :
        (pc[p] = "unlock" /\ sink[p] # <<>> /\ LastWrite(p).err = "EOF") =>
            /\ outcome[p] = "eof"
            /\ ret[p] = SumBytes(sink[p])
            /\ \A b \in scanned[p] \cup cleared[p] : ~LaterThan(b, LastWrite(p))

\* C7 witness: a call ended by io.EOF on its first Write, which accepted 4
\* bytes, returns 4 and leaves a later nonzero counter as it is.
C7_Witness ==
    \E p \in Procs :
        /\ pc[p] = "unlock"
        /\ outcome[p] = "eof"
        /\ Len(sink[p]) = 1
        /\ ret[p] = 4
        /\ \E b \in CatalogBlocks : LaterThan(b, LastWrite(p)) /\ Counter(b) > 0

ClearStep(p) ==
    \/ ClearStart(p)
    \/ ClearLock(p)
    \/ ClearStore(p)
    \/ pc[p] = "clr_unlock" /\ Unlock(p)

\* C8: when ClearCoverageData has stored to every counter and no hit has
\* landed since it took the lock, every counter of every file of the data
\* source is zero, whether the catalog is built or not; a
\* ConsumeCoverageData that runs with still no hit calls no Write; and no
\* step of ClearCoverageData changes the catalog or writes to a sink.
C8_ClearWithoutEmitting ==
    /\ [](\A p \in Procs :
            /\ (pc[p] = "clr_unlock" /\ quiet) => \A b \in AllBlocks : Counter(b) = 0
            /\ (pc[p] \in FlushPCs /\ quiet) => sink[p] = <<>>)
    /\ [][\A p \in Procs : ClearStep(p) =>
            /\ UNCHANGED <<files, syntheticPCs, once>>
            /\ \A q \in Procs : Len(sink'[q]) <= Len(sink[q])]_vars

\* C8 witness: a ClearCoverageData that ran before the catalog was built
\* has zeroed a nonzero counter, with no hit since it took the lock.
C8_Witness ==
    \E p \in Procs :
        /\ pc[p] = "clr_unlock"
        /\ quiet
        /\ once = "idle"
        /\ lastVal[p] > 0

\* C9 as stated: calculatePC is strictly increasing in the lexicographic
\* order of (file ordinal, block ordinal).
C9_StrictlyIncreasing ==
    LexLess(pcPrev.fileNum, pcPrev.blockNum, pcCur.fileNum, pcCur.blockNum)
        => pcPrev.pc < pcCur.pc

\* C10: the catalog a process run builds equals the catalog the run before
\* it built over the same data source: the same ordered file list and the
\* same identifiers.
C10_CatalogDeterminism ==
    (prevCatalog.built /\ once = "done") =>
        /\ files = prevCatalog.files
        /\ syntheticPCs = prevCatalog.pcs

\* C10 witness: two runs over three files that ranged over the map in
\* different orders have both built their catalog.
C10_Witness ==
    /\ prevCatalog.built
    /\ once = "done"
    /\ Len(files) = 3
    /\ enumOrder # prevCatalog.order
    /\ enumOrder # files
    /\ prevCatalog.order # files

\* The catalog InitCoverageData builds in one run over the data source.
CatalogComplete ==
    /\ Len(files) = Cardinality(DOMAIN coverBlocks)
    /\ {files[i] : i \in DOMAIN files} = DOMAIN coverBlocks
    /\ Len(syntheticPCs) = Len(files)
    /\ \A i \in DOMAIN files : Len(syntheticPCs[i]) = Len(coverBlocks[files[i]])

\* C11: whatever number of ConsumeCoverageData calls start before the
\* catalog is built, at most one goroutine is in the body of
\* InitCoverageData, the body is run once and no more, and a call that has
\* passed once.Do (it waits for the lock, scans or ends) finds once done and
\* the catalog of one complete run of the body.
C11_BuiltOnceBeforeRead ==
    /\ builds <= 1
    /\ Cardinality({p \in Procs : pc[p] \in InitPCsOf}) <= 1
    /\ (\E p \in Procs : pc[p] \in InitPCsOf) => (builds = 0 /\ once = "running")
    /\ \A p \in Procs : pc[p] \in {"lock"} \cup FlushPCs =>
          /\ once = "done"
          /\ builds = 1
          /\ CatalogComplete

\* C11 witness: two calls started before the catalog was built; one is in
\* the last loop of the body and the other waits in once.Do.
C11_Witness ==
    \E p, q \in Procs :
        /\ p # q
        /\ pc[p] = "init_pcs"
        /\ pc[q] = "once"
        /\ builds = 0
        /\ files # <<>>

\* C12 as stated: a call of InitCoverageData made after the body has run
\* leaves globalData.files and globalData.syntheticPCs as they were.
C12_InitIdempotent ==
    [][\A p \in Procs : (builds >= 1 /\ InitCoverageData(p)) =>
          (files' = files /\ syntheticPCs' = syntheticPCs)]_vars

\* C13 as stated: once the body of InitCoverageData has run, no step of any
\* call (InitCoverageData by name, ConsumeCoverageData, ClearCoverageData,
\* a query) changes globalData.files or globalData.syntheticPCs: the
\* catalog is built once and stays as built.
C13_BuiltOnceImmutable ==
    [][builds >= 1 => (files' = files /\ syntheticPCs' = syntheticPCs)]_vars

\* C14 as stated: FileFromIndex(i) with i the length of globalData.files,
\* and BlockFromIndex(file, i) with i the number of blocks of a file of the
\* data source, return the error.
C14_IndexAtLengthIsError ==
    /\ (query.op = "FileFromIndex" /\ query.i = query.total)
           => query.result = "error"
    /\ (query.op = "BlockFromIndex" /\ query.file \in DOMAIN coverBlocks
           /\ query.i = query.total)
           => query.result = "error"

\* C15 as stated: BlockFromIndex with a file the data source (and so the
\* catalog) does not hold returns a not-found error of its own, whatever
\* the index.
C15_UnknownFileNotFound ==
    (query.op = "BlockFromIndex" /\ query.file \notin DOMAIN coverBlocks)
        => query.result = "notfound"

\* C16 as stated: KcovAvailable returns true exactly when some file has at
\* least one block.
C16_AvailableIffSomeBlock ==
    query.op = "KcovAvailable" =>
        (query.result = "true" <=>
            \E f \in DOMAIN coverBlocks : Len(coverBlocks[f]) > 0)

\* C16 amended: KcovAvailable returns true exactly when the data source
\* holds at least one file, whatever the number of its blocks, and the call
\* changes no counter and nothing of the catalog.
C16_AvailableIffSomeFile ==
    /\ [](query.op = "KcovAvailable" =>
            (query.result = "true" <=> DOMAIN coverBlocks # {}))
    /\ [][CallKcovAvailable =>
            UNCHANGED <<coverBlocks, coverCounters, files, syntheticPCs,
                        once, builds>>]_vars

\* C16 witness: KcovAvailable returned true over a data source of two files
\* that have no block.
C16_Witness ==
    /\ query.op = "KcovAvailable"
    /\ query.result = "true"
    /\ Cardinality(DOMAIN coverBlocks) = 2
    /\ \A f \in DOMAIN coverBlocks : Len(coverBlocks[f]) = 0

DumpBlocks == {<<query.val[k].file, query.val[k].blockNum>> : k \in DOMAIN query.val}

\* C17: a PrintAllPCs called after the catalog was built prints one
\* (identifier, position) pair for every block of every file of the catalog
\* and no other; the identifier printed for file ordinal i and block
\* ordinal j is globalData.syntheticPCs[i][j], the value
\* ConsumeCoverageData writes for that block; and the call changes no
\* counter and nothing of the catalog.
C17_DumpAgreesWithCatalog ==
    /\ []((query.op = "PrintAllPCs" /\ query.builds >= 1) =>
            /\ DumpBlocks = CatalogBlocks
            /\ Len(query.val) = Cardinality(CatalogBlocks)
            /\ \A k \in DOMAIN query.val :
                  LET l == query.val[k] IN
                  /\ files[l.fileNum + 1] = l.file
                  /\ l.block = coverBlocks[l.file][l.blockNum + 1]
                  /\ l.pc = syntheticPCs[l.fileNum + 1][l.blockNum + 1])
    /\ [][CallPrintAllPCs =>
            UNCHANGED <<coverCounters, files, syntheticPCs, once, builds>>]_vars

\* C17 witness: PrintAllPCs printed the blocks of a built catalog of three
\* files, the second and third of them with two blocks.
C17_Witness ==
    /\ query.op = "PrintAllPCs"
    /\ query.builds = 1
    /\ Len(files) = 3
    /\ Len(query.val) >= 4
    /\ \E k \in DOMAIN query.val :
          query.val[k].fileNum = 2 /\ query.val[k].blockNum = 1

\* C18: a ConsumeCoverageData whose Write returned an error other than
\* io.EOF makes no further step but the deferred Unlock: that Write is its
\* last, the call ends in the panic and returns no byte count; every
\* counter it stored zero into, the one of the failed Write included, is
\* zero unless the instrumented code has hit the block again; and it has
\* loaded and stored no counter later in catalog order.
C18_WriteFailureStops ==
    \A p \in Procs :
        (\E i \in DOMAIN sink[p] : sink[p][i].err = "other") =>
            /\ pc[p] = "unlock"
            /\ LastWrite(p).err = "other"
            /\ \A i \in 1..(Len(sink[p]) - 1) : sink[p][i].err = "nil"
            /\ outcome[p] = "panic_write"
            /\ ret[p] = 0
            /\ <<LastWrite(p).file, LastWrite(p).index>> \in cleared[p]
            /\ \A b \in cleared[p] : Counter(b) = 0 \/ b \in fresh
            /\ \A b \in scanned[p] \cup cleared[p] : ~LaterThan(b, LastWrite(p))

\* C18 witness: the first Write of a call failed after accepting 4 bytes;
\* the call ended in the panic, the counter of that block is zero and a
\* nonzero counter later in catalog order was not loaded.
C18_Witness ==
    \E p \in Procs :
        /\ pc[p] = "unlock"
        /\ outcome[p] = "panic_write"
        /\ Len(sink[p]) = 1
        /\ LastWrite(p).n = 4
        /\ Counter(<<LastWrite(p).file, LastWrite(p).index>>) = 0
        /\ \E b \in CatalogBlocks \ scanned[p] :
              LaterThan(b, LastWrite(p)) /\ Counter(b) > 0

\* C19 as stated: when a ClearCoverageData that was called before the
\* catalog was built returns, the catalog is built.
C19_ClearBuildsCatalog ==
    \A p \in Procs : pc[p] = "clr_unlock" => (once = "done" /\ builds >= 1)

\* C19 amended: ClearCoverageData does not build the catalog.  In a
\* process whose goroutines call only ClearCoverageData, once is never
\* used and globalData stays empty, also when a call has stored to every
\* counter and returns.
C19_ClearLeavesUninitialized ==
    /\ once = "idle"
    /\ builds = 0
    /\ files = <<>>
    /\ syntheticPCs = <<>>

\* C19 witness: a ClearCoverageData called before the catalog was built
\* has zeroed a nonzero counter and is about to return; the catalog is not
\* built.
C19_Witness ==
    \E p \in Procs :
        /\ pc[p] = "clr_unlock"
        /\ once = "idle"
        /\ files = <<>>
        /\ cleared[p] # {}
        /\ lastVal[p] > 0

\* C20: coverageMu is held only by a goroutine that is between Lock and the
\* deferred Unlock of a call; under the scheduling of SpecFair every
\* ConsumeCoverageData or ClearCoverageData that waits for the lock gets
\* it, and every call that holds the lock ends and has released it,
\* whatever way it ends (total returned, io.EOF, either panic).
C20_LockProgress ==
    /\ [](\A p \in Procs : coverageMu = p => pc[p] \in ScanPCs)
    /\ [](\A p \in Procs : pc[p] \in ScanPCs => coverageMu = p)
    /\ \A p \in Procs : (pc[p] \in {"lock", "clr_lock"}) ~> (coverageMu = p)
    /\ \A p \in Procs : (pc[p] \in ScanPCs) ~> (pc[p] = "idle" /\ coverageMu # p)

\* C20 witness: a ConsumeCoverageData has ended in the panic of a failed
\* Write and still holds the lock, which a ClearCoverageData waits for.
C20_Witness ==
    \E p, q \in Procs :
        /\ p # q
        /\ pc[p] = "unlock"
        /\ outcome[p] = "panic_write"
        /\ coverageMu = p
        /\ pc[q] = "clr_lock"

====
